------------------------------ MODULE Spec2Model ------------------------------
(***************************************************************************)
(* Model of the VoiceBot class of discord-voice-summary (src/src/types.ts).*)
(*                                                                         *)
(* The bot runs on one cooperative event loop: every action below is the   *)
(* code that runs between two awaits of one handler invocation.  Every     *)
(* awaited external call (message.reply, channel.send, fs.*, the OpenAI    *)
(* calls) may resolve or reject; the choice is an input of the action that *)
(* resumes the handler.                                                    *)
(*                                                                         *)
(* Library contracts the handlers rely on (@discordjs/voice):              *)
(*   - joinVoiceChannel returns the tracked connection of the guild when   *)
(*     one exists that is not destroyed, and a new connection otherwise;   *)
(*   - VoiceConnection.destroy() throws when the connection has already    *)
(*     been destroyed.                                                     *)
(* Texts are sequences of words, so split(' ').length is Len.              *)
(***************************************************************************)
EXTENDS Integers, Sequences, FiniteSets, TLC

(* ------------------------------ bounds -------------------------------- *)
(* Spec: commands overlap freely, one speaker at a time.                   *)
MaxCalls == 3        \* command handler invocations in one behaviour
MaxSubs == 1         \* handleAudioStream invocations in one behaviour
MaxChunks == 2       \* chunks one queue accumulates
MaxFaults == 1       \* rejected awaits / thrown library calls in one behaviour
(* SpecCapture: overlapping speakers, one command handler at a time.       *)
CaptureCalls == 3
CaptureSubs == 2
CaptureChunks == 2
CaptureFaults == 1
CapturePending == 1  \* command handlers in flight at once
(* SpecTwoKeys: two guilds, commands overlap freely.                       *)
TwoKeysCalls == 3
TwoKeysSubs == 1
TwoKeysChunks == 1
TwoKeysFaults == 1
(* SpecSerializer: the WAV serializer applied to chunk lists of up to     *)
(* SerializerChunks chunks, each of one of the lengths ChunkLengths.      *)
SerializerChunks == 3
ChunkLengths == {0, 5, 10, 20}

Guilds == {"g1", "g2"}    \* the guild ids there are; limits.keys are those in play
NoGuild == "none"    \* message.guild is undefined (direct message)

(* ------------------------- texts and messages ------------------------- *)
MsgNeedChannel == <<"You", "need", "to", "be", "in", "a", "voice", "channel", "first!">>
MsgJoined == <<"Joined", "voice", "channel", "and", "started", "recording.">>
MsgJoinFailed == <<"Failed", "to", "join", "voice", "channel.">>
MsgNotIn == <<"Not", "currently", "in", "a", "voice", "channel.">>
MsgNoSpeech == <<"No", "clear", "speech", "detected", "in", "the", "recording.">>
MsgNoAudio == <<"No", "audio", "was", "recorded.">>
MsgLeft == <<"Left", "voice", "channel.">>
MsgProcessFailed == <<"Failed", "to", "process", "recording.">>
SummaryPrefix == <<"Summary", "of", "the", "conversation:">>

TxtNoContent == <<"No", "audio", "content", "recorded">>
TxtTranscribeFailed == <<"Failed", "to", "transcribe", "audio", "after", "multiple", "attempts">>
TxtTranscribeError == <<"Error", "processing", "audio", "file">>
TxtFailedCompare == <<"Failed", "to", "transcribe", "audio">>
TxtTooShort == <<"Text", "too", "short", "to", "summarize", "meaningfully">>
TxtSummaryFailed == <<"Failed", "to", "generate", "summary">>

MinSummaryWords == 30
maxRetries == 3

(* What the speech-to-text API can answer: nothing, a few words, a text    *)
(* long enough to summarise, and the literal the leave handler compares to.*)
ShortText == <<"hello", "there">>
LongText == [i \in 1..MinSummaryWords |-> "w"]
Transcripts == {<< >>, ShortText, LongText, TxtFailedCompare}
(* message.content of the chat completion: empty/undefined, or a summary. *)
SummaryContents == {<< >>, <<"they", "talked">>}

(* 'a b c'.split(' ').length; ''.split(' ') is [''] *)
SplitLen(text) == IF text = << >> THEN 1 ELSE Len(text)

(* ------------------------------ audio --------------------------------- *)
(* A frame as delivered by the receive stream: isBuffer is chunk instanceof*)
(* Buffer, corrupt frames make decoder.decode throw, pcm is what decode    *)
(* returns otherwise (possibly empty).                                     *)
PcmBlocks == {<< >>, <<1>>, <<2, 3>>}
Frames == {[isBuffer |-> FALSE, corrupt |-> FALSE, pcm |-> << >>],
           [isBuffer |-> TRUE, corrupt |-> TRUE, pcm |-> << >>]}
          \cup {[isBuffer |-> TRUE, corrupt |-> FALSE, pcm |-> p] : p \in PcmBlocks}

RECURSIVE BufferConcat(_)
BufferConcat(chunks) ==
    IF chunks = << >> THEN << >>
    ELSE Head(chunks) \o BufferConcat(Tail(chunks))

RECURSIVE TotalSize(_)
TotalSize(chunks) ==
    IF chunks = << >> THEN 0
    ELSE Len(Head(chunks)) + TotalSize(Tail(chunks))

UInt32LE_bigEndian(n) ==
    <<(n \div 16777216) % 256, (n \div 65536) % 256, (n \div 256) % 256, n % 256>>
UInt32LE(n) ==
    <<n % 256, (n \div 256) % 256, (n \div 65536) % 256, (n \div 16777216) % 256>>
UInt16LE(n) == <<n % 256, (n \div 256) % 256>>

numChannels == 2
sampleRate == 48000
bitsPerSample == 16
blockAlign == numChannels * (bitsPerSample \div 8)
byteRate == sampleRate * blockAlign

wavHeader(audioBuffer) ==
       <<82, 73, 70, 70>>                  \* 'RIFF'
    \o UInt32LE(36 + Len(audioBuffer))
    \o <<87, 65, 86, 69>>                  \* 'WAVE'
    \o <<102, 109, 116, 32>>               \* 'fmt '
    \o UInt32LE(16)
    \o UInt16LE(1)
    \o UInt16LE(numChannels)
    \o UInt32LE(sampleRate)
    \o UInt32LE(byteRate)
    \o UInt16LE(blockAlign)
    \o UInt16LE(bitsPerSample)
    \o <<100, 97, 116, 97>>                \* 'data'
    \o UInt32LE(Len(audioBuffer))

createWavBuffer(audioBuffer) == wavHeader(audioBuffer) \o audioBuffer

(* ------------------------------ state --------------------------------- *)
VARIABLES
    audioQueues,  \* this.audioQueues: the Map, as its set of <<key, queue>> entries
    heap,         \* the AudioQueue objects ever created, by identity
    conns,        \* the VoiceConnection objects ever created, by identity
    calls,        \* invocations of handleJoinCommand / handleLeaveCommand
    subs,         \* invocations of handleAudioStream
    files,        \* recording_<guildId>.wav on disk, per guild
    faults,       \* how many environment failures have happened so far
    limits,       \* the size of the explored scenario; never changes
    wav           \* one call of line 177 on its own: Buffer.concat, createWavBuffer

vars == <<audioQueues, heap, conns, calls, subs, files, faults, limits, wav>>

NoQueue == 0
NoFile == [exists |-> FALSE, data |-> << >>]
NoWav == [pc |-> "idle", audioChunks |-> << >>, audioBuffer |-> << >>, wavBuffer |-> << >>]

(* line 176: `recording_${guildId}.wav`; a file is named by its guild *)
filename_fixed(guildId) == "g1"
filename(guildId) == guildId

(* Map.get / Map.set / Map.delete on the entry set *)
MapHas(map, key) == \E e \in map : e[1] = key
MapGet(map, key) ==
    IF MapHas(map, key) THEN (CHOOSE e \in map : e[1] = key)[2] ELSE NoQueue
MapSet_keepOld(map, key, value) == map \cup {<<key, value>>}
MapSet(map, key, value) == {e \in map : e[1] # key} \cup {<<key, value>>}
MapDelete_noop(map, key) == map
MapDelete(map, key) == {e \in map : e[1] # key}

(* getVoiceConnection(guildId): the tracked, not destroyed connection *)
LiveConns(g) == {c \in 1..Len(conns) : conns[c].guild = g /\ conns[c].status = "ready"}

NewCall(cmd, g, pc) ==
    [cmd |-> cmd, guild |-> g, pc |-> pc,
     queue |-> NoQueue,        \* const queue (line 165) / the queue a join made
     wavBuffer |-> << >>,      \* const wavBuffer, until fs.writeFile has it
     i |-> 0,                  \* the retry loop's counter
     delay |-> 0,              \* the pending setTimeout, in ms
     transcription |-> << >>,  \* const transcription, inside the inner try
     summary |-> << >>,        \* const summary, inside the inner try
     pending |-> FALSE,        \* an exception is travelling through finally
     wrote |-> FALSE,          \* fs.writeFile resolved
     unlinked |-> FALSE,       \* fs.unlink was called
     exhausted |-> FALSE,      \* every transcription attempt failed
     summarized |-> FALSE,     \* summarizeText was called
     posted |-> << >>]         \* the messages this invocation delivered

Finished(h) == calls[h].pc \in {"returned", "raised"}
At(h, pc) == h \in 1..Len(calls) /\ calls[h].pc = pc

(* the outcome of an external call: it succeeds, or it fails iff the       *)
(* behaviour has failures left                                             *)
Outcome(ok) ==
    IF ok THEN faults' = faults
    ELSE faults < limits.faults /\ faults' = faults + 1

(* a command arrives: the scenario has room for one more handler *)
CanStart ==
    /\ Len(calls) < limits.calls
    /\ Cardinality({h \in 1..Len(calls) : ~Finished(h)}) < limits.pending

(* an awaited reply/send that resolved: the message is now in the channel *)
Post(call, msg) == [call EXCEPT !.posted = Append(@, msg)]

Empty ==
    /\ audioQueues = {}
    /\ heap = << >>
    /\ conns = << >>
    /\ calls = << >>
    /\ subs = << >>
    /\ files = [g \in Guilds |-> NoFile]
    /\ wav = NoWav
    /\ faults = 0

Init ==
    /\ Empty
    /\ limits = [keys |-> {"g1"}, calls |-> MaxCalls, pending |-> MaxCalls,
                 subs |-> MaxSubs, chunks |-> MaxChunks, faults |-> MaxFaults]

InitCapture ==
    /\ Empty
    /\ limits = [keys |-> {"g1"}, calls |-> CaptureCalls, pending |-> CapturePending,
                 subs |-> CaptureSubs, chunks |-> CaptureChunks,
                 faults |-> CaptureFaults]

InitTwoKeys ==
    /\ Empty
    /\ limits = [keys |-> {"g1", "g2"}, calls |-> TwoKeysCalls, pending |-> TwoKeysCalls,
                 subs |-> TwoKeysSubs, chunks |-> TwoKeysChunks,
                 faults |-> TwoKeysFaults]

(* lines 88-89 and 167-168: the awaited reply of a failed precondition is  *)
(* outside every try: resolved, the handler returns; rejected, it raises   *)
afterPreconditionReply_caught(call, msg, ok) ==
    IF ok THEN [Post(call, msg) EXCEPT !.pc = "returned"]
    ELSE [call EXCEPT !.pc = "replyFailed"]
afterPreconditionReply(call, msg, ok) ==
    IF ok THEN [Post(call, msg) EXCEPT !.pc = "returned"]
    ELSE [call EXCEPT !.pc = "raised"]

(* --------------------------- handleJoinCommand ------------------------ *)
(* lines 85-90: the requester is in no voice channel *)
JoinNotInVoice(g) ==
    /\ CanStart
    /\ calls' = Append(calls, NewCall("join", g, "replyNeedChannel"))
    /\ UNCHANGED <<audioQueues, heap, conns, subs, files, faults, limits, wav>>

(* lines 92-98, 119-121: joinVoiceChannel throws *)
JoinThrows(g) ==
    /\ Outcome(FALSE)
    /\ CanStart
    /\ calls' = Append(calls, NewCall("join", g, "replyJoinFailed"))
    /\ UNCHANGED <<audioQueues, heap, conns, subs, files, limits, wav>>

(* lines 92-118: connection obtained, queue registered, listener added *)
JoinOk(g) ==
    /\ CanStart
    /\ LET reuse == LiveConns(g) # {}
           c == IF reuse THEN CHOOSE x \in LiveConns(g) : TRUE ELSE Len(conns) + 1
           q == Len(heap) + 1
       IN /\ conns' = IF reuse
                      THEN [conns EXCEPT ![c].listeners = @ + 1]
                      ELSE Append(conns, [guild |-> g, status |-> "ready", listeners |-> 1])
          /\ heap' = Append(heap, [connection |-> c, audioChunks |-> << >>,
                                   appended |-> << >>, totalSize |-> 0, drains |-> 0])
          /\ audioQueues' = MapSet(audioQueues, g, q)
          /\ calls' = Append(calls, [NewCall("join", g, "replyJoined") EXCEPT !.queue = q])
    /\ UNCHANGED <<subs, files, faults, limits, wav>>

(* line 88 resolves or rejects; a rejection leaves the handler *)
JoinReplyNeedChannel(h, ok) ==
    /\ Outcome(ok)
    /\ At(h, "replyNeedChannel")
    /\ calls' = [calls EXCEPT ![h] = afterPreconditionReply(@, MsgNeedChannel, ok)]
    /\ UNCHANGED <<audioQueues, heap, conns, subs, files, limits, wav>>

(* line 118 resolves or rejects; a rejection is caught at line 119 *)
JoinReplyJoined(h, ok) ==
    /\ Outcome(ok)
    /\ At(h, "replyJoined")
    /\ calls' = [calls EXCEPT ![h] =
                   IF ok THEN [Post(@, MsgJoined) EXCEPT !.pc = "returned"]
                   ELSE [@ EXCEPT !.pc = "replyJoinFailed"]]
    /\ UNCHANGED <<audioQueues, heap, conns, subs, files, limits, wav>>

(* line 121 resolves or rejects *)
JoinReplyFailed(h, ok) ==
    /\ Outcome(ok)
    /\ At(h, "replyJoinFailed")
    /\ calls' = [calls EXCEPT ![h] =
                   IF ok THEN [Post(@, MsgJoinFailed) EXCEPT !.pc = "returned"]
                   ELSE [@ EXCEPT !.pc = "raised"]]
    /\ UNCHANGED <<audioQueues, heap, conns, subs, files, limits, wav>>

(* --------------------------- handleAudioStream ------------------------ *)
(* pc: "iterating" in the for-await loop; "ended" after line 155; "failed" *)
(* after the catch of line 156; "noqueue" after the return of line 127.    *)
(* console is what the loop last told the log: "quiet" so far, "warned"    *)
(* by the decode catch of line 150, or "recovered" when a chunk was stored *)
(* after such a warning.                                                   *)
NewSub(q, pc, decoder) ==
    [queue |-> q, pc |-> pc, decoder |-> decoder, console |-> "quiet"]

Iterating(s) == s \in 1..Len(subs) /\ subs[s].pc = "iterating"

(* lines 107-116, 126-127: a 'start' event on a connection with a listener;*)
(* the listener subscribes and calls handleAudioStream, which finds no     *)
(* queue under the key and returns                                         *)
AudioStreamNoQueue(c) ==
    /\ c \in 1..Len(conns) /\ conns[c].status = "ready" /\ conns[c].listeners > 0
    /\ Len(subs) < limits.subs
    /\ ~MapHas(audioQueues, conns[c].guild)
    /\ subs' = Append(subs, NewSub(NoQueue, "noqueue", "none"))
    /\ UNCHANGED <<audioQueues, heap, conns, calls, files, faults, limits, wav>>

(* lines 126-131: queue found; new OpusScript(48000, 2) succeeds or throws *)
(* (caught at line 156)                                                    *)
AudioStreamStart(c, ctorOk) ==
    /\ Outcome(ctorOk)
    /\ c \in 1..Len(conns) /\ conns[c].status = "ready" /\ conns[c].listeners > 0
    /\ Len(subs) < limits.subs
    /\ MapHas(audioQueues, conns[c].guild)
    /\ LET q == MapGet(audioQueues, conns[c].guild)
       IN subs' = Append(subs, IF ctorOk THEN NewSub(q, "iterating", "live")
                               ELSE NewSub(q, "failed", "none"))
    /\ UNCHANGED <<audioQueues, heap, conns, calls, files, limits, wav>>

(* queue.audioChunks.push(audioData) and the size log of lines 143-147 *)
Push_front(queue, audioData) ==
    [queue EXCEPT !.audioChunks = <<audioData>> \o @,
                  !.appended = Append(@, audioData),
                  !.totalSize = TotalSize(<<audioData>> \o queue.audioChunks)]
Push(queue, audioData) ==
    [queue EXCEPT !.audioChunks = Append(@, audioData),
                  !.appended = Append(@, audioData),
                  !.totalSize = TotalSize(Append(queue.audioChunks, audioData))]

(* what one frame does: lines 134-152 *)
FrameKind(f) ==
    IF ~f.isBuffer THEN "skipped"
    ELSE IF f.corrupt THEN "warned"
    ELSE IF Len(f.pcm) > 0 THEN "pushed" ELSE "empty"

(* lines 149-151: the catch around decode logs and the loop goes on *)
catchDecode_rethrow(pc) == "failed"
catchDecode(pc) == pc

(* lines 133-152: one iteration of the for-await loop *)
AudioFrame(s, f) ==
    /\ Iterating(s)
    /\ LET kind == FrameKind(f)
           q == subs[s].queue
       IN /\ kind = "pushed" => Len(heap[q].audioChunks) < limits.chunks
          /\ subs' = [subs EXCEPT ![s] =
                        [@ EXCEPT !.console = IF kind = "warned" THEN "warned"
                                              ELSE IF kind = "pushed" /\ @ = "warned"
                                                   THEN "recovered" ELSE @,
                                  !.pc = IF kind = "warned" THEN catchDecode(@) ELSE @]]
          /\ heap' = IF kind = "pushed"
                     THEN [heap EXCEPT ![q] = Push(@, f.pcm)]
                     ELSE heap
    /\ UNCHANGED <<audioQueues, conns, calls, files, faults, limits, wav>>

(* lines 153-155: the stream ends (silence timeout or connection loss)     *)
(* and decoder.delete() runs                                               *)
AudioStreamEnd(s) ==
    /\ Iterating(s)
    /\ subs' = [subs EXCEPT ![s] = [@ EXCEPT !.pc = "ended", !.decoder = "deleted",
                                             !.console = "quiet"]]
    /\ UNCHANGED <<audioQueues, heap, conns, calls, files, faults, limits, wav>>

(* lines 156-158: the catch of one invocation logs; that invocation ends  *)
catchStream_all(all, s) ==
    [t \in 1..Len(all) |->
        IF all[t].queue = all[s].queue /\ all[t].pc = "iterating"
        THEN [all[t] EXCEPT !.pc = "failed", !.console = "quiet"]
        ELSE all[t]]
catchStream(all, s) ==
    [all EXCEPT ![s] = [@ EXCEPT !.pc = "failed", !.console = "quiet"]]

(* lines 133, 156-158: the stream raises; the catch logs and returns *)
AudioStreamError(s) ==
    /\ Outcome(FALSE)
    /\ Iterating(s)
    /\ subs' = catchStream(subs, s)
    /\ UNCHANGED <<audioQueues, heap, conns, calls, files, limits, wav>>

(* --------------------------- handleLeaveCommand ----------------------- *)
(* line 163: the message has no guild *)
LeaveNoGuild ==
    /\ CanStart
    /\ calls' = Append(calls, NewCall("leave", NoGuild, "returned"))
    /\ UNCHANGED <<audioQueues, heap, conns, subs, files, faults, limits, wav>>

(* lines 165-167: no queue under the key *)
LeaveNotIn(g) ==
    /\ CanStart
    /\ ~MapHas(audioQueues, g)
    /\ calls' = Append(calls, NewCall("leave", g, "replyNotIn"))
    /\ UNCHANGED <<audioQueues, heap, conns, subs, files, faults, limits, wav>>

(* line 167 resolves or rejects *)
LeaveReplyNotIn(h, ok) ==
    /\ Outcome(ok)
    /\ At(h, "replyNotIn")
    /\ calls' = [calls EXCEPT ![h] = afterPreconditionReply(@, MsgNotIn, ok)]
    /\ UNCHANGED <<audioQueues, heap, conns, subs, files, limits, wav>>

(* line 173: queue.connection.destroy() throws on a destroyed connection *)
DestroyThrows_never(c) == FALSE
DestroyThrows(c) == conns[c].status = "destroyed"

(* lines 165-173, 202-204: destroy throws, the catch replies *)
LeaveDestroyThrows(g) ==
    /\ CanStart
    /\ MapHas(audioQueues, g)
    /\ LET q == MapGet(audioQueues, g)
       IN /\ DestroyThrows(heap[q].connection)
          /\ calls' = Append(calls, [NewCall("leave", g, "replyFailed")
                                       EXCEPT !.queue = q])
    /\ UNCHANGED <<audioQueues, heap, conns, subs, files, faults, limits, wav>>

(* lines 165-178: connection destroyed, chunks concatenated and wrapped,   *)
(* fs.writeFile started                                                    *)
LeaveRecorded(g) ==
    /\ CanStart
    /\ MapHas(audioQueues, g)
    /\ LET q == MapGet(audioQueues, g)
           c == heap[q].connection
           block == BufferConcat(heap[q].audioChunks)
       IN /\ ~DestroyThrows(c)
          /\ Len(heap[q].audioChunks) > 0
          /\ conns' = [conns EXCEPT ![c].status = "destroyed"]
          /\ heap' = [heap EXCEPT ![q].drains = @ + 1]
          /\ calls' = Append(calls, [NewCall("leave", g, "writeFile")
                                       EXCEPT !.queue = q,
                                              !.wavBuffer = createWavBuffer(block)])
    /\ UNCHANGED <<audioQueues, subs, files, faults, limits, wav>>

(* lines 165-175, 196-197: connection destroyed, nothing recorded *)
LeaveEmpty(g) ==
    /\ CanStart
    /\ MapHas(audioQueues, g)
    /\ LET q == MapGet(audioQueues, g)
           c == heap[q].connection
       IN /\ ~DestroyThrows(c)
          /\ Len(heap[q].audioChunks) = 0
          /\ conns' = [conns EXCEPT ![c].status = "destroyed"]
          /\ calls' = Append(calls, [NewCall("leave", g, "replyNoAudio")
                                       EXCEPT !.queue = q])
    /\ UNCHANGED <<audioQueues, heap, subs, files, faults, limits, wav>>

(* line 178 resolves (then transcribeAudio runs up to fs.stat, line 258)   *)
(* or rejects (caught at line 202)                                         *)
LeaveWriteFile(h, ok) ==
    /\ Outcome(ok)
    /\ At(h, "writeFile")
    /\ IF ok
       THEN /\ files' = [files EXCEPT ![filename(calls[h].guild)] =
                           [exists |-> TRUE, data |-> calls[h].wavBuffer]]
            /\ calls' = [calls EXCEPT ![h] = [@ EXCEPT !.wrote = TRUE, !.pc = "stat",
                                                       !.wavBuffer = << >>]]
       ELSE /\ files' = files
            /\ calls' = [calls EXCEPT ![h] = [@ EXCEPT !.pc = "replyFailed",
                                                       !.wavBuffer = << >>]]
    /\ UNCHANGED <<audioQueues, heap, conns, subs, limits, wav>>

(* Math.pow(2, i) * 1000 *)
RECURSIVE Pow2(_)
Pow2(n) == IF n = 0 THEN 1 ELSE 2 * Pow2(n - 1)
Backoff_flat(i) == 1000
Backoff(i) == Pow2(i) * 1000

(* summarizeText up to its first await: lines 293-298 *)
summarizeStart(call, text) ==
    IF SplitLen(text) < MinSummaryWords
    THEN [call EXCEPT !.summarized = TRUE, !.summary = TxtTooShort, !.pc = "sendSummary"]
    ELSE [call EXCEPT !.summarized = TRUE, !.pc = "summarize"]

(* line 183: transcription && transcription !== 'Failed to transcribe audio' *)
IsSpeech(text) == text # << >> /\ text # TxtFailedCompare

(* lines 182-190 once transcribeAudio has returned text; the locals of     *)
(* transcribeAudio are gone                                                *)
afterTranscription(call, text) ==
    LET c == [call EXCEPT !.transcription = text, !.i = 0, !.delay = 0]
    IN IF IsSpeech(text) THEN summarizeStart(c, text)
       ELSE [c EXCEPT !.pc = "sendNoSpeech"]

(* lines 258-272: fs.stat resolves or rejects (it rejects when the file is *)
(* gone); then the first API attempt starts                                *)
TranscribeStat(h, ok) ==
    /\ At(h, "stat")
    /\ IF files[filename(calls[h].guild)].exists THEN Outcome(ok)
       ELSE ~ok /\ faults' = faults
    /\ calls' = [calls EXCEPT ![h] =
                   IF ~ok THEN afterTranscription(@, TxtTranscribeError)
                   ELSE IF Len(files[filename(calls[h].guild)].data) = 0
                        THEN afterTranscription(@, TxtNoContent)
                        ELSE [@ EXCEPT !.i = 0, !.pc = "transcribe"]]
    /\ UNCHANGED <<audioQueues, heap, conns, subs, files, limits, wav>>

(* lines 269-273: the API answers with text *)
TranscribeOk(h, text) ==
    /\ At(h, "transcribe")
    /\ calls' = [calls EXCEPT ![h] = afterTranscription(@, text)]
    /\ UNCHANGED <<audioQueues, heap, conns, subs, files, faults, limits, wav>>

(* lines 274-285: the API call fails: back off, or give up *)
TranscribeFail(h) ==
    /\ At(h, "transcribe")
    /\ calls' = [calls EXCEPT ![h] =
                   IF @.i < maxRetries - 1
                   THEN [@ EXCEPT !.delay = Backoff(calls[h].i), !.pc = "backoff"]
                   ELSE afterTranscription([@ EXCEPT !.exhausted = TRUE],
                                           TxtTranscribeFailed)]
    /\ UNCHANGED <<audioQueues, heap, conns, subs, files, faults, limits, wav>>

(* lines 278-279, 267-269: the timer fires, the next attempt starts *)
TranscribeRetry(h) ==
    /\ At(h, "backoff")
    /\ calls' = [calls EXCEPT ![h] =
                   [@ EXCEPT !.i = @ + 1, !.delay = 0, !.pc = "transcribe"]]
    /\ UNCHANGED <<audioQueues, heap, conns, subs, files, faults, limits, wav>>

(* lines 298-316: the chat completion answers or fails *)
Summarize(h, ok, content) ==
    /\ At(h, "summarize")
    /\ calls' = [calls EXCEPT ![h] =
                   [@ EXCEPT !.summary = IF ok /\ content # << >> THEN content
                                         ELSE TxtSummaryFailed,
                             !.pc = "sendSummary"]]
    /\ UNCHANGED <<audioQueues, heap, conns, subs, files, faults, limits, wav>>

(* lines 192-195: the finally block runs whether or not the try block     *)
(* threw; it calls fs.unlink and the locals of the try block are gone      *)
finallyUnlink_onSuccess(call) ==
    IF call.pending
    THEN [call EXCEPT !.pc = "replyFailed", !.pending = FALSE,
                      !.transcription = << >>, !.summary = << >>]
    ELSE [call EXCEPT !.pc = "unlink", !.unlinked = TRUE,
                      !.transcription = << >>, !.summary = << >>]
finallyUnlink(call) ==
    [call EXCEPT !.pc = "unlink", !.unlinked = TRUE,
                 !.transcription = << >>, !.summary = << >>]

(* lines 187 / 189 resolve or reject; the finally block starts fs.unlink   *)
LeaveSend(h, ok) ==
    /\ Outcome(ok)
    /\ h \in 1..Len(calls) /\ calls[h].pc \in {"sendSummary", "sendNoSpeech"}
    /\ LET msg == IF calls[h].pc = "sendSummary"
                  THEN SummaryPrefix \o calls[h].summary ELSE MsgNoSpeech
       IN calls' = [calls EXCEPT ![h] =
                      IF ok THEN finallyUnlink(Post(@, msg))
                      ELSE finallyUnlink([@ EXCEPT !.pending = TRUE])]
    /\ UNCHANGED <<audioQueues, heap, conns, subs, files, limits, wav>>

(* line 194: .catch(console.error) turns a rejected fs.unlink into a log   *)
(* line; the handler's state is as it was                                  *)
catchUnlink_rethrow(call) == [call EXCEPT !.pending = TRUE]
catchUnlink(call) == call

(* lines 194, 200-204: fs.unlink resolves or rejects (logged only); a send *)
(* failure is then rethrown to the catch, otherwise the entry is deleted   *)
LeaveUnlink(h, ok) ==
    /\ At(h, "unlink")
    /\ IF files[filename(calls[h].guild)].exists THEN Outcome(ok)
       ELSE ~ok /\ faults' = faults
    /\ files' = IF ok THEN [files EXCEPT ![filename(calls[h].guild)] = NoFile] ELSE files
    /\ LET call == IF ok THEN calls[h] ELSE catchUnlink(calls[h])
       IN IF call.pending
          THEN /\ calls' = [calls EXCEPT ![h] = [call EXCEPT !.pending = FALSE,
                                                             !.pc = "replyFailed"]]
               /\ audioQueues' = audioQueues
          ELSE /\ calls' = [calls EXCEPT ![h] = [call EXCEPT !.pc = "replyLeft"]]
               /\ audioQueues' = MapDelete(audioQueues, calls[h].guild)
    /\ UNCHANGED <<heap, conns, subs, limits, wav>>

(* lines 197, 200-201: the reply resolves, the entry is deleted; or it     *)
(* rejects and the catch replies                                           *)
LeaveReplyNoAudio(h, ok) ==
    /\ Outcome(ok)
    /\ At(h, "replyNoAudio")
    /\ IF ok
       THEN /\ calls' = [calls EXCEPT ![h] = [Post(@, MsgNoAudio) EXCEPT !.pc = "replyLeft"]]
            /\ audioQueues' = MapDelete(audioQueues, calls[h].guild)
       ELSE /\ calls' = [calls EXCEPT ![h] = [@ EXCEPT !.pc = "replyFailed"]]
            /\ audioQueues' = audioQueues
    /\ UNCHANGED <<heap, conns, subs, files, limits, wav>>

(* line 201 resolves or rejects *)
LeaveReplyLeft(h, ok) ==
    /\ Outcome(ok)
    /\ At(h, "replyLeft")
    /\ calls' = [calls EXCEPT ![h] =
                   IF ok THEN [Post(@, MsgLeft) EXCEPT !.pc = "returned"]
                   ELSE [@ EXCEPT !.pc = "replyFailed"]]
    /\ UNCHANGED <<audioQueues, heap, conns, subs, files, limits, wav>>

(* line 204 resolves or rejects *)
LeaveReplyFailed(h, ok) ==
    /\ Outcome(ok)
    /\ At(h, "replyFailed")
    /\ calls' = [calls EXCEPT ![h] =
                   IF ok THEN [Post(@, MsgProcessFailed) EXCEPT !.pc = "returned"]
                   ELSE [@ EXCEPT !.pc = "raised"]]
    /\ UNCHANGED <<audioQueues, heap, conns, subs, files, limits, wav>>

(* ---------------------------- specification --------------------------- *)
(* every step but the 'start' event on a key that has no queue, which     *)
(* takes a join overlapping a leave                                        *)
Steps ==
    \/ \E g \in limits.keys : JoinNotInVoice(g)
    \/ \E g \in limits.keys : JoinThrows(g)
    \/ \E g \in limits.keys : JoinOk(g)
    \/ \E h \in 1..Len(calls), ok \in BOOLEAN : JoinReplyNeedChannel(h, ok)
    \/ \E h \in 1..Len(calls), ok \in BOOLEAN : JoinReplyJoined(h, ok)
    \/ \E h \in 1..Len(calls), ok \in BOOLEAN : JoinReplyFailed(h, ok)
    \/ \E c \in 1..Len(conns), ok \in BOOLEAN : AudioStreamStart(c, ok)
    \/ \E s \in 1..Len(subs), f \in Frames : AudioFrame(s, f)
    \/ \E s \in 1..Len(subs) : AudioStreamEnd(s)
    \/ \E s \in 1..Len(subs) : AudioStreamError(s)
    \/ LeaveNoGuild
    \/ \E g \in limits.keys : LeaveNotIn(g)
    \/ \E h \in 1..Len(calls), ok \in BOOLEAN : LeaveReplyNotIn(h, ok)
    \/ \E g \in limits.keys : LeaveDestroyThrows(g)
    \/ \E g \in limits.keys : LeaveRecorded(g)
    \/ \E g \in limits.keys : LeaveEmpty(g)
    \/ \E h \in 1..Len(calls), ok \in BOOLEAN : LeaveWriteFile(h, ok)
    \/ \E h \in 1..Len(calls), ok \in BOOLEAN : TranscribeStat(h, ok)
    \/ \E h \in 1..Len(calls), text \in Transcripts : TranscribeOk(h, text)
    \/ \E h \in 1..Len(calls) : TranscribeFail(h)
    \/ \E h \in 1..Len(calls) : TranscribeRetry(h)
    \/ \E h \in 1..Len(calls), ok \in BOOLEAN, content \in SummaryContents : Summarize(h, ok, content)
    \/ \E h \in 1..Len(calls), ok \in BOOLEAN : LeaveSend(h, ok)
    \/ \E h \in 1..Len(calls), ok \in BOOLEAN : LeaveUnlink(h, ok)
    \/ \E h \in 1..Len(calls), ok \in BOOLEAN : LeaveReplyNoAudio(h, ok)
    \/ \E h \in 1..Len(calls), ok \in BOOLEAN : LeaveReplyLeft(h, ok)
    \/ \E h \in 1..Len(calls), ok \in BOOLEAN : LeaveReplyFailed(h, ok)

Next ==
    \/ Steps
    \/ \E c \in 1..Len(conns) : AudioStreamNoQueue(c)

Spec == Init /\ [][Next]_vars
SpecCapture == InitCapture /\ [][Steps]_vars
SpecTwoKeys == InitTwoKeys /\ [][Next]_vars

(* --------------------- line 177 taken on its own ----------------------- *)
(* createWavBuffer(Buffer.concat(audioChunks)) for any list of chunks;     *)
(* pc: "input" before Buffer.concat, "concat" after it, "done" after       *)
(* createWavBuffer returned.                                               *)
PcmOfLength(n) == [i \in 1..n |-> n + i]

ChunkLists ==
    UNION {[1..k -> {PcmOfLength(n) : n \in ChunkLengths}] : k \in 0..SerializerChunks}

InitSerializer ==
    /\ audioQueues = {}
    /\ heap = << >>
    /\ conns = << >>
    /\ calls = << >>
    /\ subs = << >>
    /\ files = [g \in Guilds |-> NoFile]
    /\ faults = 0
    /\ limits = [keys |-> {}, calls |-> 0, pending |-> 0, subs |-> 0,
                 chunks |-> SerializerChunks, faults |-> 0]
    /\ wav \in {[pc |-> "input", audioChunks |-> chunks,
                  audioBuffer |-> << >>, wavBuffer |-> << >>] : chunks \in ChunkLists}

(* Buffer.concat(queue.audioChunks), the argument of line 177 *)
SerializerConcat ==
    /\ wav.pc = "input"
    /\ wav' = [wav EXCEPT !.pc = "concat", !.audioBuffer = BufferConcat(wav.audioChunks)]
    /\ UNCHANGED <<audioQueues, heap, conns, calls, subs, files, faults, limits>>

(* this.createWavBuffer(...) of line 177, lines 208-253 *)
SerializerCreate ==
    /\ wav.pc = "concat"
    /\ wav' = [wav EXCEPT !.pc = "done", !.wavBuffer = createWavBuffer(wav.audioBuffer)]
    /\ UNCHANGED <<audioQueues, heap, conns, calls, subs, files, faults, limits>>

NextSerializer == SerializerConcat \/ SerializerCreate
SpecSerializer == InitSerializer /\ [][NextSerializer]_vars

(* ------------------------------ claims -------------------------------- *)
Range(seq) == {seq[k] : k \in 1..Len(seq)}
IsSummaryMessage(msg) == Len(msg) >= Len(SummaryPrefix) /\ SubSeq(msg, 1, Len(SummaryPrefix)) = SummaryPrefix
LeaveOnSession(h) == calls[h].cmd = "leave" /\ calls[h].queue # NoQueue
InTranscribe(pc) == pc \in {"transcribe", "backoff"}
Entries(g) == {e \in audioQueues : e[1] = g}

(* C1: when a leave that found a session finishes (returns or raises), the *)
(* registry holds no entry for its key, whatever the downstream steps did. *)
C1_LeaveAlwaysRemovesEntry ==
    [][\A h \in 1..Len(calls) :
          (LeaveOnSession(h) /\ ~Finished(h) /\ calls'[h].pc \in {"returned", "raised"})
              => ~MapHas(audioQueues', calls[h].guild)]_vars

(* C2: in every reachable state a key has a registry entry if and only if  *)
(* a connection for that key is open and not destroyed.                    *)
C2_EntryIffConnectionActive ==
    \A g \in Guilds : MapHas(audioQueues, g) <=> LiveConns(g) # {}

(* C3: a leave whose transcription failed on all 3 attempts never calls    *)
(* summarizeText, posts no summary message, and once its send has resolved *)
(* the message posted is "No clear speech detected in the recording.".     *)
C3_ExhaustedSkipsSummary ==
    \A h \in 1..Len(calls) :
        calls[h].exhausted =>
            /\ ~calls[h].summarized
            /\ \A m \in Range(calls[h].posted) : ~IsSummaryMessage(m)
            /\ calls[h].pc = "replyLeft" => MsgNoSpeech \in Range(calls[h].posted)

(* C4: transcribeAudio makes at most 3 API calls (attempt i is call i+1),  *)
(* waits 1000 ms after the first failure and 2000 ms after the second, and *)
(* leaves the loop for good either with the text of the first answer, or   *)
(* after the third failure, without another wait, with the fixed sentinel. *)
C4_TranscribeRetries ==
    [][\A h \in 1..Len(calls) :
          /\ calls[h].pc = "transcribe" => calls[h].i + 1 <= 3
          /\ calls[h].pc = "backoff" =>
                \/ calls[h].i = 0 /\ calls[h].delay = 1000
                \/ calls[h].i = 1 /\ calls[h].delay = 2000
          /\ (calls[h].pc = "backoff" /\ calls'[h].pc # "backoff") =>
                calls'[h].pc = "transcribe" /\ calls'[h].i = calls[h].i + 1
          /\ (calls[h].pc = "transcribe" /\ calls'[h].pc = "backoff") =>
                calls[h].i < 2 /\ calls'[h].i = calls[h].i
          /\ (calls[h].pc = "transcribe" /\ ~InTranscribe(calls'[h].pc)) =>
                IF calls'[h].exhausted
                THEN calls[h].i = 2 /\ calls'[h].transcription = TxtTranscribeFailed
                ELSE calls'[h].transcription \in Transcripts
          /\ (calls[h].pc # "stat" /\ ~InTranscribe(calls[h].pc)) =>
                ~InTranscribe(calls'[h].pc)]_vars

(* C4 witness: a third attempt has failed and the sentinel was returned *)
C4_Witness ==
    \E h \in 1..Len(calls) :
        calls[h].exhausted /\ calls[h].transcription = TxtTranscribeFailed

(* C5: whatever the interleaving of the frames of concurrent subscriptions,*)
(* a queue holds exactly the chunks appended to it, in the order of their  *)
(* appends; the size logged after an append is the sum of the lengths of   *)
(* the chunks appended so far; and the block a leave drains is the         *)
(* concatenation of the chunks appended so far, in that order.             *)
C5_DrainIsConcatenationInAppendOrder ==
    [][/\ \A q \in 1..Len(heap') :
             /\ heap'[q].audioChunks = heap'[q].appended
             /\ heap'[q].totalSize = TotalSize(heap'[q].appended)
       /\ (Len(calls') = Len(calls) + 1 /\ calls'[Len(calls')].pc = "writeFile") =>
             LET h == Len(calls')
             IN calls'[h].wavBuffer =
                    createWavBuffer(BufferConcat(heap[calls'[h].queue].appended))]_vars

(* C5 witness: a leave has drained two different chunks that two           *)
(* subscriptions of the session appended, each after a frame of the other  *)
(* stream had been handled                                                 *)
C5_Witness ==
    \E h \in 1..Len(calls) : \E s1, s2 \in 1..Len(subs) :
        /\ calls[h].pc = "writeFile"
        /\ s1 # s2
        /\ subs[s1].queue = calls[h].queue /\ subs[s2].queue = calls[h].queue
        /\ subs[s1].console = "recovered" /\ subs[s2].console = "recovered"
        /\ Len(heap[calls[h].queue].appended) = 2
        /\ heap[calls[h].queue].appended[1] # heap[calls[h].queue].appended[2]

(* C6: no queue is concatenated and serialized more than once, for any     *)
(* sequence and interleaving of leave commands.                            *)
C6_DrainedAtMostOnce ==
    \A q \in 1..Len(heap) : heap[q].drains <= 1

(* C6 witness: a second leave for the key arrived while the first, which   *)
(* drained the queue, was still awaiting its file or the API               *)
C6_Witness ==
    \E h1, h2 \in 1..Len(calls) :
        /\ h1 < h2
        /\ LeaveOnSession(h1) /\ LeaveOnSession(h2)
        /\ calls[h1].queue = calls[h2].queue
        /\ calls[h1].pc \in {"writeFile", "stat", "transcribe", "backoff", "summarize"}
        /\ heap[calls[h1].queue].drains = 1

(* C7: a frame whose decode throws leaves its subscription in the loop and *)
(* the buffers untouched; a subscription that has logged a decode failure  *)
(* can still store a frame, and when it does the chunk goes to the end of  *)
(* its queue.                                                              *)
C7_DecodeFailureIsSkipped ==
    [][\A s \in 1..Len(subs) :
          /\ (subs[s].console # "warned" /\ subs'[s].console = "warned") =>
                subs'[s].pc = "iterating" /\ heap' = heap
          /\ (subs[s].console = "warned" /\ subs[s].pc = "iterating"
                /\ Len(heap[subs[s].queue].audioChunks) < limits.chunks) =>
                \A p \in PcmBlocks \ {<< >>} :
                    ENABLED AudioFrame(s, [isBuffer |-> TRUE, corrupt |-> FALSE, pcm |-> p])
          /\ (subs[s].console = "warned" /\ subs'[s].console = "recovered") =>
                /\ subs'[s].pc = "iterating"
                /\ \E p \in PcmBlocks \ {<< >>} :
                      heap'[subs[s].queue].audioChunks =
                          Append(heap[subs[s].queue].audioChunks, p)]_vars

(* C7 witness: a subscription stored a chunk after one of its frames had   *)
(* failed to decode                                                        *)
C7_Witness ==
    \E s \in 1..Len(subs) :
        /\ subs[s].console = "recovered" /\ subs[s].pc = "iterating"
        /\ Len(heap[subs[s].queue].audioChunks) > 0

(* C8: every subscription that has ended, on whichever way, and had        *)
(* instantiated a decoder has released it.                                 *)
C8_DecoderReleased ==
    \A s \in 1..Len(subs) :
        (subs[s].pc \in {"ended", "failed"} /\ subs[s].decoder # "none")
            => subs[s].decoder = "deleted"

(* C9 as stated: a command whose precondition fails never raises and       *)
(* changes neither the registry, nor a buffer, nor a connection.           *)
PreconditionPcs == {"replyNeedChannel", "replyNotIn"}
C10_OneEntryPerKey ==
    [][/\ \A g \in Guilds : Cardinality({e \in audioQueues' : e[1] = g}) <= 1
       /\ Len(heap') = Len(heap) + 1 =>
             LET q == Len(heap')
                 g == conns'[heap'[q].connection].guild
             IN {e \in audioQueues' : e[1] = g} = {<<g, q>>}]_vars

(* C10 witness: two joins for one key, no leave, one entry *)
C10_Witness ==
    \E g \in Guilds :
        /\ Cardinality({q \in 1..Len(heap) : conns[heap[q].connection].guild = g}) >= 2
        /\ \A h \in 1..Len(calls) : calls[h].cmd = "join"
        /\ Cardinality(Entries(g)) = 1

(* the chunk sequence the registry holds for a key *)
KeyChunks(map, objects, g) == objects[MapGet(map, g)].audioChunks

(* C11: while a key has a registry entry, every step leaves the chunk      *)
(* sequence held for that key unchanged or adds one chunk at its end; no   *)
(* operation, a repeated join included, removes or replaces chunks.        *)
C11_BufferAppendOnly ==
    [][\A g \in Guilds :
          (MapHas(audioQueues, g) /\ MapHas(audioQueues', g)) =>
              LET old == KeyChunks(audioQueues, heap, g)
                  new == KeyChunks(audioQueues', heap', g)
              IN \/ new = old
                 \/ Len(new) = Len(old) + 1 /\ SubSeq(new, 1, Len(old)) = old]_vars

(* C12: a leave on a session with zero chunks starts no file write, no     *)
(* transcription and no summarization, and when its first reply settles    *)
(* "No audio was recorded." has been posted, no file has been written and  *)
(* the session is removed from the registry.                               *)
C12_EmptyLeaveRepliesAndRemoves ==
    [][/\ (Len(calls') = Len(calls) + 1 /\ calls'[Len(calls')].cmd = "leave"
             /\ calls'[Len(calls')].queue # NoQueue
             /\ Len(heap[calls'[Len(calls')].queue].audioChunks) = 0
             /\ calls'[Len(calls')].pc # "replyFailed") =>
             calls'[Len(calls')].pc = "replyNoAudio" /\ files' = files
       /\ \A h \in 1..Len(calls) :
             (calls[h].pc = "replyNoAudio" /\ calls'[h].pc # "replyNoAudio") =>
                 /\ calls'[h].posted = <<MsgNoAudio>>
                 /\ files' = files
                 /\ ~calls'[h].wrote /\ ~calls'[h].summarized
                 /\ ~InTranscribe(calls'[h].pc) /\ calls'[h].pc # "stat"
                 /\ ~MapHas(audioQueues', calls[h].guild)]_vars

(* C13: when the stream of one subscription fails, only that subscription  *)
(* ends: every other subscription is as it was, the buffered chunks, the   *)
(* registry and the connections are unchanged, and another subscription    *)
(* of the same session that is still in its loop can still append.         *)
C13_StreamFailureIsContained ==
    [][\A s \in 1..Len(subs) :
          (subs[s].pc = "iterating" /\ subs'[s].pc = "failed") =>
              /\ \A t \in 1..Len(subs) : t # s => subs'[t] = subs[t]
              /\ UNCHANGED <<heap, audioQueues, conns>>
              /\ \A t \in 1..Len(subs) :
                    (t # s /\ subs[t].queue = subs[s].queue /\ subs[t].pc = "iterating"
                        /\ Len(heap[subs[t].queue].audioChunks) < limits.chunks) =>
                    \A p \in PcmBlocks \ {<< >>} :
                        (ENABLED AudioFrame(t, [isBuffer |-> TRUE, corrupt |-> FALSE, pcm |-> p]))']_vars

(* C13 witness: one subscription has failed with its stream, a second one  *)
(* of the same session is still in its loop, and the session holds chunks  *)
(* and is registered with its connection open                              *)
C13_Witness ==
    \E s, t \in 1..Len(subs) :
        /\ s # t /\ subs[s].queue = subs[t].queue
        /\ subs[s].pc = "failed" /\ subs[s].decoder = "live"
        /\ subs[t].pc = "iterating" /\ subs[t].console = "recovered"
        /\ Len(heap[subs[s].queue].audioChunks) > 0
        /\ conns[heap[subs[s].queue].connection].status = "ready"
        /\ <<conns[heap[subs[s].queue].connection].guild, subs[s].queue>> \in audioQueues


(* ------------------------------------------------------------------ *)
(* What belongs to one guild id: its registry entry, its connections,  *)
(* the chunk lists of the queues made for those connections, and its   *)
(* recording file.                                                     *)
KeyView(map, objects, cs, fs, g) ==
    << {e \in map : e[1] = g},
       {<<c, cs[c]>> : c \in {d \in 1..Len(cs) : cs[d].guild = g}},
       {<<q, objects[q].audioChunks>> :
            q \in {r \in 1..Len(objects) : cs[objects[r].connection].guild = g}},
       fs[g] >>

(* The guild ids of the handler invocations and subscriptions that     *)
(* acted in a step (started, or moved on).                             *)
ActingKeys ==
    {calls'[h].guild : h \in {k \in 1..Len(calls') :
                                 k > Len(calls) \/ calls'[k] # calls[k]}}
    \cup
    {conns'[heap'[subs'[s].queue].connection].guild :
        s \in {t \in 1..Len(subs') :
                  /\ subs'[t].queue # NoQueue
                  /\ (t > Len(subs) \/ subs'[t] # subs[t])}}

(* C14: a join, leave, speaker-start or frame event for one guild id   *)
(* leaves the registry entry, connection, audio buffer and recording   *)
(* file of every other guild id unchanged.                             *)
C14_KeysAreIndependent ==
    [][\A g \in Guilds :
          KeyView(audioQueues, heap, conns, files, g)'
              # KeyView(audioQueues, heap, conns, files, g)
          => \A a \in ActingKeys : a = g]_vars

(* Guild g2 has a registered session with a live connection while a    *)
(* leave for g1 has drained g1's chunks and written g1's file.         *)
C14_Witness ==
    /\ MapHas(audioQueues, "g2")
    /\ LiveConns("g2") # {}
    /\ files["g1"].exists
    /\ ~files["g2"].exists
    /\ \E h \in 1..Len(calls) :
          /\ calls[h].cmd = "leave" /\ calls[h].guild = "g1" /\ calls[h].wrote


(* ------------------------------------------------------------------ *)
(* reading a 32-bit little-endian field back, as a WAV reader does     *)
ReadUInt32LE(buffer, offset) ==
      buffer[offset + 1] + 256 * buffer[offset + 2]
    + 65536 * buffer[offset + 3] + 16777216 * buffer[offset + 4]

ChunkSizes(chunks) == [k \in 1..Len(chunks) |-> Len(chunks[k])]

(* C15: for every payload of length n, n = 0 included, createWavBuffer  *)
(* returns 44 header bytes followed by the unchanged payload, with the  *)
(* field at offset 4 reading 36 + n and the field at offset 40 reading  *)
(* n; chunks of 10, 20 and 5 bytes concatenate in that order to 35      *)
(* bytes and serialize to 79 bytes whose fields read 71 and 35.         *)
C15_SerializerLayout ==
    /\ wav.pc = "done" =>
          LET n == Len(wav.audioBuffer)
          IN /\ Len(wav.wavBuffer) = 44 + n
             /\ SubSeq(wav.wavBuffer, 1, 44) = wavHeader(wav.audioBuffer)
             /\ SubSeq(wav.wavBuffer, 45, 44 + n) = wav.audioBuffer
             /\ ReadUInt32LE(wav.wavBuffer, 4) = 36 + n
             /\ ReadUInt32LE(wav.wavBuffer, 40) = n
    /\ (wav.pc \in {"concat", "done"} /\ ChunkSizes(wav.audioChunks) = <<10, 20, 5>>) =>
          /\ Len(wav.audioBuffer) = 35
          /\ wav.audioBuffer = PcmOfLength(10) \o PcmOfLength(20) \o PcmOfLength(5)
          /\ wav.pc = "done" =>
                /\ Len(wav.wavBuffer) = 79
                /\ ReadUInt32LE(wav.wavBuffer, 4) = 71
                /\ ReadUInt32LE(wav.wavBuffer, 40) = 35

(* createWavBuffer has returned for the chunks of 10, 20 and 5 bytes.   *)
C15_Witness ==
    /\ wav.pc = "done"
    /\ ChunkSizes(wav.audioChunks) = <<10, 20, 5>>
    /\ Len(wav.wavBuffer) = 79

(* createWavBuffer has returned for the empty payload.                  *)
C15_WitnessEmpty ==
    /\ wav.pc = "done"
    /\ wav.audioBuffer = << >>
    /\ Len(wav.wavBuffer) = 44


(* ------------------------------------------------------------------ *)
(* the messages of lines 187, 189 and 197                              *)
IsOutcomeMessage(msg) ==
    IsSummaryMessage(msg) \/ msg = MsgNoSpeech \/ msg = MsgNoAudio

(* C16: a leave on a session that returns without the failure reply    *)
(* has posted exactly one outcome message and then 'Left voice         *)
(* channel.'; 'Left voice channel.' is posted only after the outcome   *)
(* message, and only after the registry entry was removed.             *)
C16_OutcomeThenLeft ==
    [][\A h \in 1..Len(calls') :
          (calls'[h].cmd = "leave" /\ calls'[h].queue # NoQueue) =>
             /\ (calls'[h].pc = "returned"
                   /\ MsgProcessFailed \notin Range(calls'[h].posted)) =>
                    /\ Len(calls'[h].posted) = 2
                    /\ IsOutcomeMessage(calls'[h].posted[1])
                    /\ calls'[h].posted[2] = MsgLeft
             /\ (h <= Len(calls) /\ MsgLeft \in Range(calls'[h].posted)
                   /\ MsgLeft \notin Range(calls[h].posted)) =>
                    /\ calls[h].pc = "replyLeft"
                    /\ Len(calls[h].posted) = 1
                    /\ IsOutcomeMessage(calls[h].posted[1])
             /\ (calls'[h].pc = "replyLeft"
                   /\ (h > Len(calls) \/ calls[h].pc # "replyLeft")) =>
                    ~MapHas(audioQueues', calls'[h].guild)]_vars

(* A leave returned after posting a summary and 'Left voice channel.'. *)
C16_Witness ==
    \E h \in 1..Len(calls) :
        /\ LeaveOnSession(h)
        /\ calls[h].pc = "returned"
        /\ Len(calls[h].posted) = 2
        /\ IsSummaryMessage(calls[h].posted[1])
        /\ calls[h].posted[2] = MsgLeft


(* ------------------------------------------------------------------ *)
(* C17: when the deletion of the recording file fails during a leave,  *)
(* nothing is posted for it, and unless a send failure is already on   *)
(* its way to the catch the registry entry is removed and the handler  *)
(* goes on to reply 'Left voice channel.'.                             *)
C17_UnlinkFailureOnlyLogged ==
    [][\A h \in 1..Len(calls) :
          (calls[h].pc = "unlink" /\ calls'[h].pc # "unlink" /\ files' = files) =>
              /\ calls'[h].posted = calls[h].posted
              /\ calls'[h].pc # "raised"
              /\ ~calls[h].pending =>
                    /\ calls'[h].pc = "replyLeft"
                    /\ ~MapHas(audioQueues', calls[h].guild)]_vars

(* A leave whose file deletion failed (the file is still there) has    *)
(* replied 'Left voice channel.' and nothing else after its outcome.   *)
C17_Witness ==
    \E h \in 1..Len(calls) :
        /\ LeaveOnSession(h)
        /\ calls[h].unlinked
        /\ calls[h].pc = "returned"
        /\ files[filename(calls[h].guild)].exists
        /\ faults = 1
        /\ Len(calls[h].posted) = 2
        /\ calls[h].posted[2] = MsgLeft
        /\ ~MapHas(audioQueues, calls[h].guild)


(* ------------------------------------------------------------------ *)
(* C18: a leave that wrote the recording file has called fs.unlink on  *)
(* it by the time the handler finishes, whether the transcription      *)
(* succeeded or failed, the summarization failed, or the result could  *)
(* not be posted.                                                      *)
C18_WrittenFileIsUnlinked ==
    \A h \in 1..Len(calls) :
        /\ (calls[h].wrote /\ Finished(h)) => calls[h].unlinked
        /\ (calls[h].wrote /\ calls[h].pc \in {"replyLeft", "replyFailed"})
              => calls[h].unlinked

(* A leave wrote the file, failed to post its result, and finished     *)
(* with the failure reply after the unlink.                            *)
C18_Witness ==
    \E h \in 1..Len(calls) :
        /\ LeaveOnSession(h)
        /\ calls[h].wrote
        /\ calls[h].unlinked
        /\ Finished(h)
        /\ calls[h].posted = <<MsgProcessFailed>>
        /\ ~files[filename(calls[h].guild)].exists


(* ------------------------------------------------------------------ *)
(* C19: a leave removes only the session it drained: when it gets to   *)
(* audioQueues.delete and the registry holds a newer session under its *)
(* key (a join ran while the leave was awaiting), that entry stays.    *)
C19_LeaveRemovesOnlyItsOwnSession ==
    [][\A h \in 1..Len(calls) :
          (/\ LeaveOnSession(h)
           /\ calls[h].pc # "replyLeft"
           /\ calls'[h].pc = "replyLeft"
           /\ MapHas(audioQueues, calls[h].guild)
           /\ MapGet(audioQueues, calls[h].guild) # calls[h].queue)
          => MapHas(audioQueues', calls[h].guild)]_vars


(* ------------------------------------------------------------------ *)
(* the guild id a queue was made for                                   *)
KeyOfQueue(q) == conns[heap[q].connection].guild

(* C20: no recorded chunk is lost: a subscription appends a chunk only *)
(* to a buffer that has not been drained and that is the one the       *)
(* registry holds for its key, so the next leave for the key drains it.*)
C20_NoChunkLost ==
    [][\A q \in 1..Len(heap) :
          heap'[q].appended # heap[q].appended =>
              /\ heap[q].drains = 0
              /\ MapGet(audioQueues, KeyOfQueue(q)) = q]_vars

=============================================================================
